---- MODULE Spec2Model ----
(***************************************************************************)
(* Genre Evolution Simulator: the two client programs of App.jsx.          *)
(*                                                                         *)
(*  - the REST client (App.jsx lines 29-400): status/error, the frame it   *)
(*    shows (tick, nodes, links, styles, genres, history2d), the playback  *)
(*    interval, and the POST /api/init and POST /api/step requests it has   *)
(*    in flight;                                                           *)
(*  - the WebSocket client (App.jsx lines 490-525): timestep, graphData    *)
(*    and the socket it sends control messages on.                         *)
(*                                                                         *)
(* The backend is not part of the sources; the engine behind /api/init     *)
(* and /api/step is modelled from sections 4.4 and 6 of the specification. *)
(*                                                                         *)
(* A state setter and the re-run of the effects that depend on that state *)
(* (cleanup of the previous run, then the new run) are one step of the     *)
(* model: no timer callback runs between the two.                          *)
(***************************************************************************)
EXTENDS Integers, Naturals, Sequences, FiniteSets, TLC

\* ---------------------------------------------------------------- bounds
MaxReq == 3         \* requests the REST client issues in one run
MaxWsSent == 2      \* control messages the WebSocket client sends in one run
MaxWsTick == 2      \* largest tick of a frame pushed on the socket
MaxReqUI == 2       \* requests issued in a run that also edits the settings
MaxPriorSteps == 51 \* steps already applied when a trail run starts
MaxTrailReq == 1    \* requests issued in a trail run
MaxReqCadence == 2  \* requests issued in a cadence run

\* ------------------------------------------------------------- constants
MinStepMs == 50
MaxStepMs == 5000
DefaultStepMs == 400
HistoryKeep == 50
WsOpenState == 1

Null == "null"
EmptyArr == <<>>                      \* the JS value []

\* A JS number held in an input's state: parseInt / parseFloat of the typed
\* text, NaN when the field is emptied.
Num(n) == [nan |-> FALSE, n |-> n]
NaN == [nan |-> TRUE, n |-> 0]

\* Values typed into the Step (ms) field: lines 270-280.
StepMsInputs == {Num(20), Num(DefaultStepMs)}

DefaultStyleDim == 3
\* useState defaults of the six parameter fields (alpha and noise in 1/100).
DefaultParams ==
    [num_artists |-> Num(50), style_dim |-> Num(DefaultStyleDim),
     avg_degree |-> Num(4), alpha |-> Num(25), noise |-> Num(2),
     seed |-> Num(42)]

\* Edits of the parameter fields: a field and the value typed into it.
ParamEdits == {<<"style_dim", Num(1)>>, <<"style_dim", Num(DefaultStyleDim)>>,
               <<"seed", NaN>>, <<"seed", Num(42)>>}

\* JSON.stringify of a number: NaN is written as null.
JsonNull == [null |-> TRUE, n |-> 0]
JsonNumber(v) == IF v.nan THEN JsonNull ELSE [null |-> FALSE, n |-> v.n]

\* JSON.stringify(payload), line 100.
JsonStringify(payload) ==
    [f \in DOMAIN payload |-> JsonNumber(payload[f])]

\* Fields a response body may carry.  The specified Frame carries all of
\* them; the client also accepts bodies that lack them (typeof / truthiness
\* tests at lines 105-109 and 125-139): the full Frame and the empty object
\* take both branches of every test.
AllFields == {"tick", "nodes", "links", "styles", "genres"}
Shapes == {AllFields, {}}

VARIABLES
    app,        \* which App component is mounted: "rest" or "ws";
                \* "unmounted" once it is gone
    mounted,    \* the mount effects have run
    status, error,
    tick, nodes, links, styles, genres, history2d,
    running, stepMs, xDim, yDim,
    params,     \* the six parameter fields
    budget,     \* requests the run may still issue, counted from nextId
    timers,     \* delays of the intervals registered by the playback effect
    requests,   \* fetches whose promise has not settled yet
    nextId,     \* number of requests issued so far + 1
    srvReady, srvParams, srvTick,  \* the engine behind the REST API
    \* history variables
    stepCmds,   \* clicks of Step
    tickCmds,   \* firings of a playback interval
    stepPosts,  \* POST /api/step sent
    stepApplied, stepFailed,    \* step fetches resolved / thrown
    initApplied,                \* init fetches resolved
    lastPause,  \* "stop": Stop was pressed, "error": a failed step paused,
                \* and no Step/Run/Re-Init since; "none" otherwise
    lastInitId, \* id of the init request whose response was applied last
    sinceInit,  \* an init response was applied and no response of a step
                \* issued after that init since
    wsClicked,  \* commands clicked while the socket was open
    wsIgnored,  \* a command was clicked while the socket was not open
    \* the WebSocket client
    wsState, wsSent, timestep, graphData

restVars == <<status, error, tick, nodes, links, styles, genres, history2d,
              running, stepMs, xDim, yDim, params, budget,
              timers, requests, nextId,
              srvReady, srvParams, srvTick,
              stepCmds, tickCmds, stepPosts, stepApplied, stepFailed,
              initApplied, lastPause, lastInitId, sinceInit>>
wsVars == <<wsState, wsSent, timestep, graphData, wsClicked, wsIgnored>>
uiVars == <<xDim, yDim, params, budget>>
vars == <<app, mounted, restVars, wsVars>>

sim == <<tick, nodes, links, styles, genres, history2d>>

\* ------------------------------------------------------------ pure helpers
Max(a, b) == IF a >= b THEN a ELSE b
Min(a, b) == IF a <= b THEN a ELSE b

\* Math.min and Math.max of JS numbers: NaN when an argument is NaN.
MathMin(a, b) == IF a.nan \/ b.nan THEN NaN ELSE Num(Min(a.n, b.n))
MathMax(a, b) == IF a.nan \/ b.nan THEN NaN ELSE Num(Max(a.n, b.n))

\* const clamp = (v, min, max) => Math.max(min, Math.min(max, v))
clamp(v, lo, hi) == MathMax(lo, MathMin(hi, v))

\* prev.slice(Math.max(0, prev.length - 50)).concat([pts])
AppendTrail_Keep51(h, pts) ==
    LET start == Max(0, Len(h) - (HistoryKeep + 1))
    IN  SubSeq(h, start + 1, Len(h)) \o <<pts>>

AppendTrail(h, pts) ==
    LET start == Max(0, Len(h) - HistoryKeep)
    IN  SubSeq(h, start + 1, Len(h)) \o <<pts>>

\* The playback effect: its cleanup clears the interval of the previous run,
\* then an interval is registered when running.
PlaybackEffect_Leak(old, run, ms) ==
    IF run THEN old \o <<clamp(ms, Num(MinStepMs), Num(MaxStepMs))>> ELSE old

PlaybackEffect_KeepOnRerun(old, run, ms) ==
    IF run
    THEN (IF old = <<>> THEN <<>> ELSE old)
         \o <<clamp(ms, Num(MinStepMs), Num(MaxStepMs))>>
    ELSE <<>>

PlaybackEffect(old, run, ms) ==
    IF run THEN <<clamp(ms, Num(MinStepMs), Num(MaxStepMs))>> ELSE <<>>

\* --------------------------------------------------------------- requests
\* The Frame of an engine initialized with parameters p, at tick t: the
\* engine is deterministic in its parameters and seed.
Frame(p, t) == <<p, t>>

Request(id, kind, by) ==
    [id |-> id, kind |-> kind, by |-> by,
     payload |-> IF kind = "init" THEN params ELSE EmptyArr,
     body |-> IF kind = "init" THEN JsonStringify(params) ELSE EmptyArr,
     phase |-> "sent", ok |-> FALSE, msg |-> Null,
     has |-> {}, rtick |-> 0, frame |-> EmptyArr,
     tickAtSend |-> tick]

Field(r, f) == IF f \in r.has THEN r.frame ELSE EmptyArr

InitState(b) ==
    /\ app \in {"rest", "ws"}
    /\ mounted = FALSE
    /\ status = "idle" /\ error = Null
    /\ tick = 0 /\ nodes = EmptyArr /\ links = EmptyArr
    /\ styles = EmptyArr /\ genres = EmptyArr /\ history2d = <<>>
    /\ running = FALSE /\ stepMs = Num(DefaultStepMs)
    /\ xDim = 0 /\ yDim = 1 /\ params = DefaultParams
    /\ budget = b
    /\ timers = <<>>
    /\ requests = {} /\ nextId = 1
    /\ srvReady = FALSE /\ srvParams = EmptyArr /\ srvTick = 0
    /\ stepCmds = 0 /\ tickCmds = 0 /\ stepPosts = 0
    /\ stepApplied = 0 /\ stepFailed = 0 /\ initApplied = 0
    /\ lastPause = "none" /\ lastInitId = 0 /\ sinceInit = FALSE
    /\ wsState = 0 /\ wsSent = <<>> /\ timestep = 0 /\ wsClicked = <<>>
    /\ wsIgnored = FALSE
    /\ graphData = [nodes |-> EmptyArr, links |-> EmptyArr]

Init == InitState(MaxReq)

\* ------------------------------------------------- the engine (REST API)
\* init(params) -> Frame at tick 0: rejected (InvalidParameter) before any
\* state is touched, or a fresh network and tick 0.  A body with a null
\* field is never accepted.
EngineInit(r, accept, has) ==
    /\ r \in requests /\ r.kind = "init" /\ r.phase = "sent"
    /\ accept => \A f \in DOMAIN r.body : ~r.body[f].null
    /\ IF accept
       THEN /\ srvReady' = TRUE /\ srvParams' = r.body /\ srvTick' = 0
            /\ requests' = (requests \ {r}) \cup
                 {[r EXCEPT !.phase = "answered", !.ok = TRUE, !.has = has,
                            !.rtick = 0, !.frame = Frame(r.body, 0)]}
       ELSE /\ UNCHANGED <<srvReady, srvParams, srvTick>>
            /\ requests' = (requests \ {r}) \cup
                 {[r EXCEPT !.phase = "answered", !.msg = "HTTP 422"]}

\* step() -> Frame: NotInitialized before init, else tick + 1.
EngineStep(r, has) ==
    /\ r \in requests /\ r.kind = "step" /\ r.phase = "sent"
    /\ IF srvReady
       THEN /\ srvTick' = srvTick + 1
            /\ requests' = (requests \ {r}) \cup
                 {[r EXCEPT !.phase = "answered", !.ok = TRUE, !.has = has,
                            !.rtick = srvTick + 1,
                            !.frame = Frame(srvParams, srvTick + 1)]}
       ELSE /\ UNCHANGED srvTick
            /\ requests' = (requests \ {r}) \cup
                 {[r EXCEPT !.phase = "answered", !.msg = "HTTP 409"]}
    /\ UNCHANGED <<srvReady, srvParams>>

clientVars == <<status, error, tick, nodes, links, styles, genres, history2d,
                running, stepMs, xDim, yDim, params, budget, timers, nextId,
                stepCmds, tickCmds, stepPosts, stepApplied, stepFailed,
                initApplied, lastPause, lastInitId, sinceInit>>

Serve ==
    /\ app = "rest"
    /\ \E r \in requests :
          \/ \E accept \in BOOLEAN, has \in Shapes : EngineInit(r, accept, has)
          \/ \E has \in Shapes : EngineStep(r, has)
    /\ UNCHANGED <<app, mounted, clientVars, wsVars>>

\* ------------------------------------------------------- the REST client
\* initSimulation up to its await: lines 85-101.
InitSimulationCall(by) ==
    /\ nextId <= budget
    /\ status' = "initializing"
    /\ error' = Null
    /\ requests' = requests \cup {Request(nextId, "init", by)}
    /\ nextId' = nextId + 1

\* stepSimulation up to its await: lines 119-122.
StepSimulationCall_Twice(by) ==
    /\ nextId + 1 <= budget
    /\ status' = "stepping"
    /\ error' = Null
    /\ requests' = requests \cup {Request(nextId, "step", by),
                                  Request(nextId + 1, "step", by)}
    /\ nextId' = nextId + 2
    /\ stepPosts' = stepPosts + 2

StepSimulationCall(by) ==
    /\ nextId <= budget
    /\ status' = "stepping"
    /\ error' = Null
    /\ requests' = requests \cup {Request(nextId, "step", by)}
    /\ nextId' = nextId + 1
    /\ stepPosts' = stepPosts + 1

\* What a settled fetch throws, if it throws: apiFetch lines 70-82.
Thrown(r, lost) ==
    IF lost THEN "Failed to fetch"
    ELSE IF r.phase = "answered" /\ ~r.ok THEN r.msg ELSE Null

\* The try block of initSimulation after the await: lines 105-111.
InitApply_StepFallback(r) ==
    /\ tick' = IF "tick" \in r.has THEN r.rtick ELSE tick + 1
    /\ nodes' = Field(r, "nodes")
    /\ links' = Field(r, "links")
    /\ styles' = Field(r, "styles")
    /\ genres' = Field(r, "genres")
    /\ history2d' = <<>>
    /\ status' = "ready"
    /\ UNCHANGED error

InitApply(r) ==
    /\ tick' = IF "tick" \in r.has THEN r.rtick ELSE 0
    /\ nodes' = Field(r, "nodes")
    /\ links' = Field(r, "links")
    /\ styles' = Field(r, "styles")
    /\ genres' = Field(r, "genres")
    /\ history2d' = <<>>
    /\ status' = "ready"
    /\ UNCHANGED error

\* The catch block of initSimulation: lines 112-115.
InitCatch(m) ==
    /\ error' = m
    /\ status' = "error"
    /\ UNCHANGED sim

\* The try block of stepSimulation after the await: lines 125-160.
\* With the response shapes modelled, a body that has styles has genres too,
\* so the genre of a trail point always comes from the response.
StepApply_NoReady(r) ==
    /\ tick' = IF "tick" \in r.has THEN r.rtick ELSE tick + 1
    /\ nodes' = IF "nodes" \in r.has THEN r.frame ELSE nodes
    /\ links' = IF "links" \in r.has THEN r.frame ELSE links
    /\ styles' = IF "styles" \in r.has THEN r.frame ELSE styles
    /\ genres' = IF "genres" \in r.has THEN r.frame ELSE genres
    /\ history2d' = IF "styles" \in r.has
                    THEN AppendTrail(history2d, r.frame) ELSE history2d
    /\ UNCHANGED <<status, error, running, timers>>

StepApply(r) ==
    /\ tick' = IF "tick" \in r.has THEN r.rtick ELSE tick + 1
    /\ nodes' = IF "nodes" \in r.has THEN r.frame ELSE nodes
    /\ links' = IF "links" \in r.has THEN r.frame ELSE links
    /\ styles' = IF "styles" \in r.has THEN r.frame ELSE styles
    /\ genres' = IF "genres" \in r.has THEN r.frame ELSE genres
    /\ history2d' = IF "styles" \in r.has
                    THEN AppendTrail(history2d, r.frame) ELSE history2d
    /\ status' = "ready"
    /\ UNCHANGED <<error, running, timers>>

\* The catch block of stepSimulation: lines 161-165.
StepCatch_KeepsRunning(m) ==
    /\ error' = m
    /\ status' = "error"
    /\ UNCHANGED <<running, timers>>
    /\ UNCHANGED sim

StepCatch_ResetsTick(m) ==
    /\ error' = m
    /\ status' = "error"
    /\ running' = FALSE
    /\ timers' = PlaybackEffect(timers, FALSE, stepMs)
    /\ tick' = 0
    /\ UNCHANGED <<nodes, links, styles, genres, history2d>>

StepCatch(m) ==
    /\ error' = m
    /\ status' = "error"
    /\ running' = FALSE
    /\ timers' = PlaybackEffect(timers, FALSE, stepMs)
    /\ UNCHANGED sim

srvVars == <<srvReady, srvParams, srvTick>>
counters == <<stepCmds, tickCmds, stepPosts, stepApplied, stepFailed,
              initApplied>>

\* Initialize once on load: lines 181-184.
Mount ==
    /\ app = "rest" /\ ~mounted
    /\ mounted' = TRUE
    /\ InitSimulationCall("mount")
    /\ UNCHANGED <<app, sim, running, stepMs, timers, srvVars, counters,
                   lastPause, lastInitId, sinceInit, wsVars, uiVars>>

\* The Re-Init button: lines 197-199.
ReInit ==
    /\ app = "rest" /\ mounted
    /\ InitSimulationCall("button")
    /\ lastPause' = "none"
    /\ UNCHANGED <<app, mounted, sim, running, stepMs, timers, srvVars,
                   counters, lastInitId, sinceInit, wsVars, uiVars>>

\* The Step button, disabled while running: lines 200-202.
ManualStep ==
    /\ app = "rest" /\ mounted
    /\ ~running
    /\ StepSimulationCall("button")
    /\ stepCmds' = stepCmds + 1
    /\ lastPause' = "none"
    /\ UNCHANGED <<app, mounted, sim, running, stepMs, timers, srvVars,
                   tickCmds, stepApplied, stepFailed, initApplied,
                   lastInitId, sinceInit, wsVars, uiVars>>

\* A registered interval fires: lines 172-174.
IntervalTick ==
    /\ app = "rest" /\ mounted
    /\ \E i \in 1..Len(timers) : TRUE
    /\ StepSimulationCall("timer")
    /\ tickCmds' = tickCmds + 1
    /\ UNCHANGED <<app, mounted, sim, running, stepMs, timers, srvVars,
                   stepCmds, stepApplied, stepFailed, initApplied,
                   lastPause, lastInitId, sinceInit, wsVars, uiVars>>

\* The Run/Stop button and the playback effect it re-runs: lines 169-178,
\* 203-215.
ToggleRun_NoInterval ==
    /\ app = "rest" /\ mounted
    /\ running' = ~running
    /\ timers' = <<>>
    /\ lastPause' = IF running THEN "stop" ELSE "none"
    /\ UNCHANGED <<app, mounted, status, error, sim, stepMs, requests, nextId,
                   srvVars, counters, lastInitId, sinceInit, wsVars, uiVars>>

ToggleRun ==
    /\ app = "rest" /\ mounted
    /\ running' = ~running
    /\ timers' = PlaybackEffect(timers, ~running, stepMs)
    /\ lastPause' = IF running THEN "stop" ELSE "none"
    /\ UNCHANGED <<app, mounted, status, error, sim, stepMs, requests, nextId,
                   srvVars, counters, lastInitId, sinceInit, wsVars, uiVars>>

\* The Step (ms) input and the playback effect it re-runs: lines 270-280.
SetStepMs(v) ==
    /\ app = "rest" /\ mounted
    /\ v # stepMs
    /\ stepMs' = v
    /\ timers' = PlaybackEffect(timers, running, v)
    /\ UNCHANGED <<app, mounted, status, error, sim, running, requests, nextId,
                   srvVars, counters, lastPause, lastInitId, sinceInit,
                   wsVars, uiVars>>

\* An init fetch resolves with an OK response.
InitResolve(r) ==
    /\ r \in requests /\ r.kind = "init" /\ r.phase = "answered" /\ r.ok
    /\ requests' = requests \ {r}
    /\ InitApply(r)
    /\ sinceInit' = TRUE /\ lastInitId' = r.id
    /\ initApplied' = initApplied + 1
    /\ UNCHANGED <<app, mounted, running, stepMs, timers, nextId, srvVars,
                   stepCmds, tickCmds, stepPosts, stepApplied, stepFailed,
                   lastPause, wsVars, uiVars>>

\* An init fetch throws: a non-OK response, or the transport fails (before
\* or after the engine handled the request).
InitFail(r, lost) ==
    /\ r \in requests /\ r.kind = "init"
    /\ Thrown(r, lost) # Null
    /\ requests' = requests \ {r}
    /\ InitCatch(Thrown(r, lost))
    /\ UNCHANGED <<app, mounted, running, stepMs, timers, nextId, srvVars,
                   counters, lastPause, lastInitId, sinceInit, wsVars, uiVars>>

\* A step fetch resolves with an OK response.
StepResolve(r) ==
    /\ r \in requests /\ r.kind = "step" /\ r.phase = "answered" /\ r.ok
    /\ requests' = requests \ {r}
    /\ StepApply(r)
    /\ stepApplied' = stepApplied + 1
    /\ sinceInit' = (sinceInit /\ r.id < lastInitId)
    /\ UNCHANGED <<app, mounted, stepMs, nextId, srvVars,
                   stepCmds, tickCmds, stepPosts, stepFailed, initApplied,
                   lastPause, lastInitId, wsVars, uiVars>>

\* A step fetch throws.
StepFail(r, lost) ==
    /\ r \in requests /\ r.kind = "step"
    /\ Thrown(r, lost) # Null
    /\ requests' = requests \ {r}
    /\ StepCatch(Thrown(r, lost))
    /\ stepFailed' = stepFailed + 1
    /\ lastPause' = IF running THEN "error" ELSE lastPause
    /\ UNCHANGED <<app, mounted, stepMs, nextId, srvVars,
                   stepCmds, tickCmds, stepPosts, stepApplied, initApplied,
                   lastInitId, sinceInit, wsVars, uiVars>>

\* The X dim / Y dim selects and the playback effect they re-run: lines
\* 240-268.  The options are 0 .. styleDim - 1.
DimInputs == {d \in {0, 1} : ~params.style_dim.nan /\ d < params.style_dim.n}

SetXDim(v) ==
    /\ app = "rest" /\ mounted
    /\ v # xDim
    /\ xDim' = v
    /\ timers' = PlaybackEffect(timers, running, stepMs)
    /\ UNCHANGED <<app, mounted, status, error, sim, running, stepMs, requests,
                   nextId, srvVars, counters, lastPause, lastInitId, sinceInit,
                   wsVars, yDim, params, budget>>

SetYDim(v) ==
    /\ app = "rest" /\ mounted
    /\ v # yDim
    /\ yDim' = v
    /\ timers' = PlaybackEffect(timers, running, stepMs)
    /\ UNCHANGED <<app, mounted, status, error, sim, running, stepMs, requests,
                   nextId, srvVars, counters, lastPause, lastInitId, sinceInit,
                   wsVars, xDim, params, budget>>

\* The six parameter inputs: lines 292-367.  Style Dimensions also clamps
\* the projection dims (lines 312-317), which re-runs the playback effect.
SetParam_ReInits(f, v) ==
    /\ app = "rest" /\ mounted
    /\ v # params[f]
    /\ params' = [params EXCEPT ![f] = v]
    /\ InitSimulationCall("button")
    /\ UNCHANGED <<app, mounted, sim, running, stepMs, timers, srvVars,
                   counters, lastPause, lastInitId, sinceInit, wsVars,
                   xDim, yDim, budget>>

SetParam(f, v) ==
    /\ app = "rest" /\ mounted
    /\ v # params[f]
    /\ params' = [params EXCEPT ![f] = v]
    /\ IF f = "style_dim" /\ ~v.nan
       THEN /\ xDim' = clamp(Num(xDim), Num(0), Num(v.n - 1)).n
            /\ yDim' = clamp(Num(yDim), Num(0), Num(v.n - 1)).n
            /\ timers' = PlaybackEffect(timers, running, stepMs)
       ELSE UNCHANGED <<xDim, yDim, timers>>
    /\ UNCHANGED <<app, mounted, status, error, sim, running, stepMs, requests,
                   nextId, srvVars, counters, lastPause, lastInitId, sinceInit,
                   wsVars, budget>>

\* The component unmounts: the cleanup of the playback effect (line 176)
\* clears the interval, the cleanup of the socket effect (line 505) closes
\* the socket.  Nothing of the component runs afterwards.
Unmount ==
    /\ app \in {"rest", "ws"} /\ mounted
    /\ app' = "unmounted"
    /\ timers' = <<>>
    /\ wsState' = IF app = "ws" /\ wsState \in {0, WsOpenState} THEN 2 ELSE wsState
    /\ UNCHANGED <<mounted, status, error, sim, running, stepMs, requests,
                   nextId, srvVars, counters, lastPause, lastInitId, sinceInit,
                   wsSent, timestep, graphData, wsClicked, wsIgnored, uiVars>>

InitResolved == \E r \in requests : InitResolve(r)
InitFailed == \E r \in requests, lost \in BOOLEAN : InitFail(r, lost)
StepResolved == \E r \in requests : StepResolve(r)
StepFailed == \E r \in requests, lost \in BOOLEAN : StepFail(r, lost)
StepMsChanged == \E v \in StepMsInputs : SetStepMs(v)
XDimChanged == \E v \in DimInputs : SetXDim(v)
YDimChanged == \E v \in DimInputs : SetYDim(v)
ParamChanged == \E e \in ParamEdits : SetParam(e[1], e[2])

\* -------------------------------------------------- the WebSocket client
\* Frames the server may push: the specified Frame {tick, nodes, links, ...},
\* with or without the field t that onmessage reads.
WsFrames ==
    [tick : 0..MaxWsTick, hasT : BOOLEAN, hasGraph : BOOLEAN]

\* The mount effect: new WebSocket(...), readyState CONNECTING: lines 495-497.
WsMount ==
    /\ app = "ws" /\ ~mounted
    /\ mounted' = TRUE
    /\ wsState' = 0
    /\ UNCHANGED <<app, restVars, wsSent, timestep, graphData, wsClicked,
                   wsIgnored>>

\* The socket opens.
WsOpen ==
    /\ app = "ws" /\ mounted /\ wsState = 0
    /\ wsState' = WsOpenState
    /\ UNCHANGED <<app, mounted, restVars, wsSent, timestep, graphData,
                   wsClicked, wsIgnored>>

\* The connection is lost or refused.
WsClose ==
    /\ app = "ws" /\ mounted /\ wsState \in {0, WsOpenState}
    /\ wsState' = 3
    /\ UNCHANGED <<app, mounted, restVars, wsSent, timestep, graphData,
                   wsClicked, wsIgnored>>

\* ws.onmessage: lines 499-503.
WsMessage(f) ==
    /\ app = "ws" /\ mounted /\ wsState = WsOpenState
    /\ timestep' = IF f.hasT THEN f.tick ELSE 0
    /\ graphData' = [nodes |-> IF f.hasGraph THEN Frame(1, f.tick) ELSE EmptyArr,
                     links |-> IF f.hasGraph THEN Frame(1, f.tick) ELSE EmptyArr]
    /\ UNCHANGED <<app, mounted, restVars, wsState, wsSent, wsClicked,
                   wsIgnored>>

\* send(obj): lines 508-512.
send_Always(obj) ==
    /\ Len(wsSent) < MaxWsSent
    /\ wsSent' = Append(wsSent, obj)

send(obj) ==
    IF ~mounted \/ wsState # WsOpenState
    THEN UNCHANGED wsSent
    ELSE /\ Len(wsSent) < MaxWsSent
         /\ wsSent' = Append(wsSent, obj)

\* The Play, Pause and Step buttons: lines 519-521, Controls.jsx 13-15.
WsCommand(type) ==
    /\ app = "ws" /\ mounted
    /\ send([type |-> type])
    /\ wsClicked' = IF wsState = WsOpenState
                    THEN Append(wsClicked, type) ELSE wsClicked
    /\ wsIgnored' = (wsIgnored \/ wsState # WsOpenState)
    /\ UNCHANGED <<app, mounted, restVars, wsState, timestep, graphData>>

WsReceived == \E f \in WsFrames : WsMessage(f)
WsCommanded == \E type \in {"play", "pause", "step"} : WsCommand(type)

\* ------------------------------------------------------------------ Next
Next ==
    \/ Mount
    \/ ReInit
    \/ ManualStep
    \/ IntervalTick
    \/ ToggleRun
    \/ Serve
    \/ InitResolved
    \/ InitFailed
    \/ StepResolved
    \/ StepFailed
    \/ WsMount
    \/ WsOpen
    \/ WsClose
    \/ WsReceived
    \/ WsCommanded

\* Requests in flight, with the settings left at their defaults.
Spec == Init /\ [][Next]_vars

\* The same program with the settings edited and the component unmounted,
\* over runs of fewer requests.
InitUI == InitState(MaxReqUI)

NextUI ==
    \/ Next
    \/ StepMsChanged
    \/ XDimChanged
    \/ YDimChanged
    \/ ParamChanged
    \/ Unmount

SpecUI == InitUI /\ [][NextUI]_vars

\* Continuous play under the scheduling the browser gives: a registered
\* interval keeps firing, and every fetch settles (it resolves or rejects).
Fairness ==
    /\ WF_vars(IntervalTick)
    /\ WF_vars(InitResolved \/ InitFailed)
    /\ WF_vars(StepResolved \/ StepFailed)

SpecLive == InitUI /\ [][Next]_vars /\ Fairness

\* Long runs: the REST client after the init on load has been applied,
\* then up to MaxPriorSteps Step clicks each answered with a full Frame and
\* applied before anything else happens, then MaxTrailReq more requests in
\* any interleaving.
InitTrail ==
    LET f == Frame(JsonStringify(DefaultParams), 0) IN
    /\ app = "rest" /\ mounted = TRUE
    /\ status = "ready" /\ error = Null
    /\ tick = 0 /\ nodes = f /\ links = f /\ styles = f /\ genres = f
    /\ history2d = <<>>
    /\ running = FALSE /\ stepMs = Num(DefaultStepMs)
    /\ xDim = 0 /\ yDim = 1 /\ params = DefaultParams
    /\ timers = <<>>
    /\ requests = {} /\ nextId = 2 /\ budget = 1 + MaxTrailReq
    /\ srvReady = TRUE /\ srvParams = JsonStringify(DefaultParams)
    /\ srvTick = 0
    /\ stepCmds = 0 /\ tickCmds = 0 /\ stepPosts = 0
    /\ stepApplied = 0 /\ stepFailed = 0 /\ initApplied = 1
    /\ lastPause = "none" /\ lastInitId = 1 /\ sinceInit = TRUE
    /\ wsState = 0 /\ wsSent = <<>> /\ timestep = 0 /\ wsClicked = <<>>
    /\ wsIgnored = FALSE
    /\ graphData = [nodes |-> EmptyArr, links |-> EmptyArr]

\* One Step click served without interleaving: stepSimulation sends the
\* request, the engine steps and answers a full Frame, the response is
\* applied (lines 118-160).
StepServed ==
    LET r == [Request(nextId, "step", "button") EXCEPT
                !.phase = "answered", !.ok = TRUE, !.has = AllFields,
                !.rtick = srvTick + 1,
                !.frame = Frame(srvParams, srvTick + 1)]
    IN  /\ app = "rest" /\ mounted /\ ~running
        /\ requests = {} /\ srvReady /\ error = Null
        /\ budget - nextId = MaxTrailReq - 1
        /\ stepApplied < MaxPriorSteps
        /\ srvTick' = srvTick + 1
        /\ StepApply(r)
        /\ nextId' = nextId + 1
        /\ budget' = budget + 1
        /\ stepCmds' = stepCmds + 1
        /\ stepPosts' = stepPosts + 1
        /\ stepApplied' = stepApplied + 1
        /\ sinceInit' = FALSE
        /\ lastPause' = "none"
        /\ UNCHANGED <<app, mounted, stepMs, xDim, yDim, params, requests,
                       srvReady, srvParams, tickCmds, stepFailed,
                       initApplied, lastInitId, wsVars>>

NextTrail ==
    \/ StepServed
    \/ ReInit
    \/ ManualStep
    \/ IntervalTick
    \/ ToggleRun
    \/ Serve
    \/ InitResolved
    \/ InitFailed
    \/ StepResolved
    \/ StepFailed

SpecTrail == InitTrail /\ [][NextTrail]_vars

\* Play cadence: the REST client with every kind of value the Step (ms)
\* field can hold: below, at and above both limits of the clamp, the default,
\* and NaN (parseInt of an emptied field, line 277).
CadenceInputs ==
    {NaN, Num(MinStepMs - 1), Num(MinStepMs), Num(DefaultStepMs),
     Num(MaxStepMs), Num(MaxStepMs + 1)}

StepMsTyped == \E v \in CadenceInputs : SetStepMs(v)

InitCadence == InitState(MaxReqCadence) /\ app = "rest"

NextCadence ==
    \/ Mount
    \/ ToggleRun
    \/ IntervalTick
    \/ StepMsTyped
    \/ Serve
    \/ InitResolved
    \/ InitFailed
    \/ StepResolved
    \/ StepFailed

SpecCadence == InitCadence /\ [][NextCadence]_vars

\* ================================================================ claims
StepsInFlight == {r \in requests : r.kind = "step"}

\* C1: at most one mutating request (POST /api/init or POST /api/step) is in
\* flight in any reachable state.
C1_OneMutationInFlight == Cardinality(requests) <= 1

\* C2: Re-Init pressed while running pauses first: running is false once
\* initSimulation has been invoked.
C2_ReInitPauses == [][ReInit => ~running']_vars

\* C3: the tick shown by the REST client never decreases except when an init
\* response is applied.
C3_TickMonotonic == [][tick' >= tick \/ InitResolved]_vars

\* C4: every step request sent by the interval is sent while running is
\* true, and once running is false no interval is registered.
C4_PauseStopsDriver ==
    [][(IntervalTick => running) /\ (~running' => timers' = <<>>)]_vars

\* C4 witness: Stop was pressed while a step sent by the interval was still
\* in flight, and the driver is gone.
C4_Witness ==
    /\ lastPause = "stop" /\ ~running /\ timers = <<>>
    /\ \E r \in StepsInFlight : r.by = "timer"

\* C5: after Stop, the simulation state (tick, nodes, links, styles, genres,
\* history) does not change until the next Step, Run or Re-Init command; in
\* particular the response of a step the interval had sent is not applied
\* (responses of requests the user had made before are left aside here).
C5_PauseFreezesState ==
    [][(lastPause = "stop" /\ lastPause' = "stop") =>
           \/ sim' = sim
           \/ InitResolved
           \/ \E r \in requests : r.by = "button" /\ StepResolve(r)]_vars

\* The control messages the WebSocket client must have sent, given the
\* commands clicked while its socket was open.
Expected(clicked) == [i \in 1..Len(clicked) |-> [type |-> clicked[i]]]

\* C6 (as stated): every Step command yields exactly one step request and
\* exactly one frame application: once nothing is in flight, as many frames
\* were applied as step requests were triggered.
C6_OneRequestOneFrame ==
    /\ stepPosts = stepCmds + tickCmds
    /\ StepsInFlight = {} => stepApplied = stepPosts
    /\ wsSent = Expected(wsClicked)

\* C6 (amended): every Step command (click or interval firing) sends exactly
\* one POST /api/step; every such request is settled at most once, by one
\* frame application when it succeeds and by none when it fails; a command
\* clicked with an open socket sends exactly one message of its type.
C6_OneRequestPerCommand ==
    /\ stepPosts = stepCmds + tickCmds
    /\ stepApplied + stepFailed + Cardinality(StepsInFlight) = stepPosts
    /\ wsSent = Expected(wsClicked)

\* C6 witness: a clicked Step was applied and another one failed (REST), or
\* Step was clicked with the socket open (WebSocket).
C6_Witness ==
    \/ /\ app = "rest" /\ tickCmds = 0 /\ stepCmds >= 2
       /\ stepApplied >= 1 /\ stepFailed >= 1
    \/ /\ app = "ws" /\ Len(wsClicked) >= 1
       /\ wsClicked[Len(wsClicked)] = "step"

\* C7: applying a successful step response leaves the tick at its value
\* when that step was requested, plus one.
C7_StepAdvancesByOne ==
    [][\A r \in requests : StepResolve(r) => tick' = r.tickAtSend + 1]_vars

\* C8: a step request that fails while running leaves running = false,
\* status = "error", a non-null error and no interval registered.
C8_ErrorPausesPlay ==
    [][\A r \in requests, lost \in BOOLEAN :
          (StepFail(r, lost) /\ running) =>
              /\ ~running' /\ status' = "error" /\ error' # Null
              /\ timers' = <<>>]_vars

\* C8 witness: a step has failed during continuous play and paused it.
C8_Witness ==
    /\ lastPause = "error" /\ ~running /\ status = "error"
    /\ tickCmds >= 1 /\ stepFailed >= 1

\* C9: a failed init or step leaves the simulation state untouched, and a
\* successful init ends in status "ready" with the error cleared.
C9_FailureRecoverable ==
    [][/\ (InitFailed \/ StepFailed) => sim' = sim
       /\ InitResolved => (status' = "ready" /\ error' = Null)]_vars

\* C10: once an init response is applied the tick is 0 and the history is
\* empty, and they stay so until the response of a step issued after that
\* init is applied.
C10_ReInitResetsTick == sinceInit => (tick = 0 /\ history2d = <<>>)

\* C11 (as stated): no step request is issued before an init has completed
\* successfully; a step that fails ends in status "error" with running false
\* and the simulation state unchanged; a successful init ends in "ready".
C11_NoStepBeforeInit ==
    [][/\ (ManualStep \/ IntervalTick) => initApplied > 0
       /\ StepFailed => (status' = "error" /\ ~running' /\ sim' = sim)
       /\ InitResolved => status' = "ready"]_vars

\* C11 (amended): a step request can be issued before any init has
\* completed; when the engine answers it NotInitialized it ends in status
\* "error" with that message, running false and the simulation state
\* unchanged; a successful init ends in "ready".
C11_StepBeforeInitFails ==
    [][/\ \A r \in requests :
             (StepFail(r, FALSE) /\ ~srvReady) =>
                 /\ status' = "error" /\ error' = "HTTP 409"
                 /\ ~running' /\ timers' = <<>> /\ sim' = sim
       /\ StepFailed => (status' = "error" /\ ~running' /\ sim' = sim)
       /\ InitResolved => status' = "ready"]_vars

\* C11 witness: a step sent before any init was applied has failed with
\* NotInitialized.
C11_Witness ==
    /\ initApplied = 0 /\ stepFailed >= 1
    /\ status = "error" /\ error = "HTTP 409" /\ ~running

\* C12: at most one playback interval is registered, one is registered
\* exactly when running is true, and none is left after an unmount.
C12_OneInterval ==
    /\ Len(timers) <= 1
    /\ app = "rest" => (timers # <<>> <=> running)
    /\ app = "unmounted" => timers = <<>>

\* C12 witness: the component was unmounted while playing, after stepMs and
\* xDim were changed.
C12_Witness ==
    /\ app = "unmounted" /\ running /\ timers = <<>>
    /\ stepMs # Num(DefaultStepMs) /\ xDim # 0

C14_LatestFrameShown ==
    [][\A f \in WsFrames :
          (f.hasGraph /\ WsMessage(f)) =>
              /\ timestep' = f.tick
              /\ graphData' = [nodes |-> Frame(1, f.tick),
                               links |-> Frame(1, f.tick)]]_vars

NewRequests == requests' \ requests

\* C15: editing a parameter field sends no request and leaves the simulation
\* state and running unchanged; Re-Init sends one init request whose payload
\* is the field values at that moment; a step request carries no parameters.
C15_ParamsNeedReInit ==
    [][/\ ParamChanged =>
            (requests' = requests /\ sim' = sim /\ running' = running)
       /\ ReInit =>
            /\ Cardinality(NewRequests) = 1
            /\ \A r \in NewRequests :
                  /\ r.kind = "init" /\ r.payload = params
                  /\ r.body = JsonStringify(params)
       /\ \A r \in NewRequests : r.kind = "step" => r.body = EmptyArr]_vars

\* C15 witness: Re-Init was pressed after a parameter was edited.
C15_Witness ==
    \E r \in requests :
        /\ r.kind = "init" /\ r.by = "button"
        /\ r.payload # DefaultParams /\ r.payload = params

\* C16: Re-Init can always be invoked; when only inits were issued (one or
\* several, same parameters) and all of them succeeded, the client is in
\* status "ready" at tick 0 with an empty history and the frame of an init
\* response, whatever the number of inits and the order of the responses.
C16_InitIdempotent ==
    /\ (app = "rest" /\ mounted /\ nextId <= budget) => ENABLED ReInit
    /\ ( /\ app = "rest" /\ requests = {} /\ stepPosts = 0
         /\ initApplied >= 1 /\ initApplied = nextId - 1 ) =>
           /\ status = "ready" /\ error = Null
           /\ tick = 0 /\ history2d = <<>>
           /\ nodes \in {EmptyArr, Frame(JsonStringify(params), 0)}
           /\ links = nodes /\ styles = nodes /\ genres = nodes

\* C16 witness: two inits were issued in a row and both were applied.
C16_Witness ==
    /\ app = "rest" /\ requests = {} /\ stepPosts = 0
    /\ initApplied = 2 /\ nextId = 3

\* C17: a play/pause/step command sends exactly one message of its type when
\* the socket is open and nothing otherwise; it never changes timestep or
\* graphData, and nothing is sent later when the socket opens or closes.
C17_SendOnlyWhenOpen ==
    [][/\ \A type \in {"play", "pause", "step"} :
             WsCommand(type) =>
                 /\ wsSent' = IF wsState = WsOpenState
                              THEN Append(wsSent, [type |-> type])
                              ELSE wsSent
                 /\ timestep' = timestep /\ graphData' = graphData
                 /\ wsState' = wsState
       /\ (WsOpen \/ WsClose) => wsSent' = wsSent]_vars

\* C17 witness: one command was sent on the open socket and another was
\* clicked while the socket was not open.
C17_Witness ==
    /\ app = "ws" /\ wsIgnored /\ Len(wsSent) >= 1

\* C18: the error message is non-null exactly when status is "error".
C18_ErrorAgreesWithStatus == (error # Null) <=> (status = "error")

\* C19: once no request is in flight the status is "ready" or "error", and
\* a status of "initializing" or "stepping" does not last forever.
C19_StatusSettles ==
    /\ []((app = "rest" /\ mounted /\ requests = {}) =>
              status \in {"ready", "error"})
    /\ (status \in {"initializing", "stepping"})
          ~> (status \in {"ready", "error"})

\* C19 witness: a step was applied and nothing is in flight.
C19_Witness ==
    /\ app = "rest" /\ requests = {} /\ stepApplied >= 1 /\ status = "ready"

\* C20: the history holds at most 51 frames; a successful step that carries
\* styles keeps the last 50 entries in their order and appends its own at
\* the end, one that carries none leaves it alone; a successful init empties
\* it.
C20_TrailBounded ==
    /\ [](Len(history2d) <= HistoryKeep + 1)
    /\ [][/\ \A r \in requests :
                StepResolve(r) =>
                    IF "styles" \in r.has
                    THEN /\ Len(history2d') = Min(Len(history2d), HistoryKeep) + 1
                         /\ history2d'[Len(history2d')] = r.frame
                         /\ \A i \in 1..(Len(history2d') - 1) :
                               history2d'[i] =
                                 history2d[Len(history2d) - (Len(history2d') - 1) + i]
                    ELSE history2d' = history2d
          /\ StepServed =>
                /\ Len(history2d') = Min(Len(history2d), HistoryKeep) + 1
                /\ history2d'[Len(history2d')] = Frame(srvParams, srvTick')
          /\ InitResolved => history2d' = <<>>]_vars

\* C20 witness: a step was applied to a full history, which dropped its
\* oldest entry.
C20_Witness ==
    /\ stepApplied > MaxPriorSteps /\ Len(history2d) = HistoryKeep + 1
    /\ history2d[1] = Frame(srvParams, stepApplied - HistoryKeep)

\* C21: whatever the Step (ms) field holds, the delay of the registered
\* interval is clamp(stepMs, 50, 5000): at least 50 and at most 5000, and
\* stepMs itself when stepMs lies between them.
C21_CadenceWithinBounds ==
    timers # <<>> =>
        LET d == timers[1] IN
        /\ d = clamp(stepMs, Num(MinStepMs), Num(MaxStepMs))
        /\ ~d.nan /\ d.n >= MinStepMs /\ d.n <= MaxStepMs
        /\ (~stepMs.nan /\ stepMs.n >= MinStepMs /\ stepMs.n <= MaxStepMs)
              => d = stepMs

====
